---- MODULE Spec2Model ----
(***************************************************************************)
(* Model of the voice session hook useVoiceInput (groq-voicebot frontend): *)
(* the voice-activity detector, the recording lifecycle, the wake/end      *)
(* phrase conversation gate, the WebSocket session and the streamed        *)
(* response assembler.  The model follows the newer copy of the hook,      *)
(* src/unnamed/part_001 lines 523-1230.                                    *)
(*                                                                         *)
(* Every handler the browser runs to completion is one action.  An await   *)
(* that resolves from a cached value (setupAudio with streamRef set)       *)
(* resumes in a microtask, before any other handler can run, and is part   *)
(* of the same action.  An await on the browser (getUserMedia,             *)
(* blob.arrayBuffer) splits the handler in two actions.                    *)
(*                                                                         *)
(* Time is the value of Date.now(), in milliseconds.  It advances by       *)
(* TickMs, the period of the sampling timer; a handler that runs between   *)
(* two timer ticks reads the time of the earlier tick.  The values         *)
(* transcription, response and volume are shown to the user and read by    *)
(* no handler; they are not part of the model.                             *)
(*                                                                         *)
(* Spec is the whole hook.  The properties are checked on parts of it that *)
(* share its actions: SpecCapture (detector, commands, mode, device),      *)
(* SpecDetector (SpecCapture with a connection and reply audio),           *)
(* SpecSilence (the detector over a long silence), SpecQuiet (a quiet room *)
(* and no recording command), SpecGate (the conversation gate),            *)
(* SpecSession (the gate with streamed replies), SpecAssembler (typed      *)
(* queries and replies), SpecConnection (the life of the connection),     *)
(* SpecPlayback (the detector with replies and their audio),               *)
(* SpecLifecycle (activation, commands, device, connection and audio up    *)
(* to and after the unmount), SpecUtterance (push-to-talk utterances and   *)
(* their fragments on a changing connection), SpecRetry (the detector and  *)
(* a recorder that fails to start), SpecOutbound (everything that writes   *)
(* to the socket), SpecCommands (the recording commands in both modes)     *)
(* and SpecStops (what ends a recording, with the fairness of the timer,   *)
(* of the stop events and of the stop command).                            *)
(***************************************************************************)
EXTENDS Integers, Sequences, FiniteSets, TLC

(***************************************************************************)
(* Bounds of the model.                                                    *)
(***************************************************************************)
MaxTicks == 6        \* timer periods a behaviour lasts
MaxLongTicks == 33   \* timer periods a behaviour of SpecSilence lasts
MaxRecorders == 2    \* MediaRecorder objects created in a behaviour
MaxSockets == 2      \* WebSocket objects created in a behaviour
MaxPending == 2      \* getUserMedia requests in flight at once
MaxChat == 2         \* length of the chat log
MaxTokens == 2       \* response tokens accumulated in a turn
MaxAudio == 1        \* reply audio elements playing at once
MaxFragments == 2    \* fragments one recorder delivers
MaxChunks == 3       \* length of the fragment buffer
MaxRetryTicks == 8   \* timer periods a behaviour of SpecRetry lasts

(***************************************************************************)
(* Program constants.                                                      *)
(***************************************************************************)
null == 0                   \* a ref holding null (no timestamp, no object)
TickMs == 50                \* setInterval period
vadThreshold == 8           \* DEFAULT_CONFIG.vadThreshold, in 1/100
speechMinDuration == 150    \* DEFAULT_CONFIG.speechMinDuration
silenceDuration == 1500     \* DEFAULT_CONFIG.silenceDuration
CooldownMs == 2000          \* Date.now() + 2000
MinQueryLen == 2            \* afterWake.length > 2
sampleRate == 16000

WAKE_PHRASES ==
  <<"hey zed", "hey said", "hey set", "hey zedd", "hey zet", "a zed", "heyze">>

END_PHRASES ==
  <<"thank you zed", "thanks zed", "thank you said", "thanks said",
    "thankyou zed">>

(***************************************************************************)
(* Inputs.                                                                 *)
(***************************************************************************)
\* Levels the analyser reports, in 1/100: below, at and above vadThreshold.
Levels == {vadThreshold - 1, vadThreshold, vadThreshold + 1}

\* Texts the server transcribes.
Texts ==
  { "Hey ZED what is variance",
    "hey zed",
    "Hey Zed ok",
    "Thank you ZED",
    "thanks zed, hey zed go on",
    "hello there" }

\* Tokens of a streamed reply, a server-supplied full text, an error text.
Tokens == {"Var", "iance"}
FullTexts == {"", "Variance measures spread."}
ServerErrors == {"boom", "Rate limit exceeded"}

\* Messages that ws.onmessage answers with no change: the acknowledgements,
\* a type no case names, text that is not JSON.
OtherMessages == {"pong", "config_ack", "unknown", "unparseable"}

\* Texts the user types: a blank one and a query.
TypedTexts == {"  ", "what is variance"}

(***************************************************************************)
(* String functions of JavaScript, on TLA+ strings.                        *)
(***************************************************************************)
UpperCase == "ABCDEFGHIJKLMNOPQRSTUVWXYZ"
LowerCase == "abcdefghijklmnopqrstuvwxyz"

CharAt(s, i) == SubSeq(s, i, i)

LowerChar(c) ==
  IF \E i \in 1..Len(UpperCase) : CharAt(UpperCase, i) = c
  THEN CharAt(LowerCase, CHOOSE i \in 1..Len(UpperCase) : CharAt(UpperCase, i) = c)
  ELSE c

RECURSIVE toLowerCase(_)
toLowerCase(s) ==
  IF Len(s) = 0 THEN s
  ELSE LowerChar(CharAt(s, 1)) \o toLowerCase(SubSeq(s, 2, Len(s)))

RECURSIVE trimStart(_)
trimStart(s) ==
  IF Len(s) > 0 /\ CharAt(s, 1) = " " THEN trimStart(SubSeq(s, 2, Len(s))) ELSE s

RECURSIVE trimEnd(_)
trimEnd(s) ==
  IF Len(s) > 0 /\ CharAt(s, Len(s)) = " " THEN trimEnd(SubSeq(s, 1, Len(s) - 1)) ELSE s

trim(s) == trimEnd(trimStart(s))

\* s.indexOf(p): the least 0-based position of p in s, or -1.
indexOf(s, p) ==
  LET hits == {i \in 0..(Len(s) - Len(p)) : SubSeq(s, i + 1, i + Len(p)) = p}
  IN IF hits = {} THEN -1 ELSE CHOOSE i \in hits : \A j \in hits : i <= j

includes(s, p) == indexOf(s, p) # -1

\* s.slice(k): the suffix of s from 0-based position k.
slice(s, k) == SubSeq(s, k + 1, Len(s))

(***************************************************************************)
(* The conversation gate's text functions.                                 *)
(***************************************************************************)
containsWakeWord(text) ==
  LET lower == trim(toLowerCase(text))
  IN \E k \in 1..Len(WAKE_PHRASES) : includes(lower, WAKE_PHRASES[k])

containsEndPhrase(text) ==
  LET lower == trim(toLowerCase(text))
  IN \E k \in 1..Len(END_PHRASES) : includes(lower, END_PHRASES[k])

\* A cut at the start of the wake phrase instead of its end.
extractFromWakeWord(text) ==
  LET lower == toLowerCase(text)
      found == {k \in 1..Len(WAKE_PHRASES) : indexOf(lower, WAKE_PHRASES[k]) # -1}
  IN IF found = {} THEN text
     ELSE LET k == CHOOSE k \in found : \A j \in found : k <= j
          IN trim(slice(text, indexOf(lower, WAKE_PHRASES[k])))

\* The first phrase of WAKE_PHRASES, in list order, that occurs in the text
\* decides where the text is cut.
extractAfterWakeWord(text) ==
  LET lower == toLowerCase(text)
      found == {k \in 1..Len(WAKE_PHRASES) : indexOf(lower, WAKE_PHRASES[k]) # -1}
  IN IF found = {} THEN text
     ELSE LET k == CHOOSE k \in found : \A j \in found : k <= j
              phrase == WAKE_PHRASES[k]
          IN trim(slice(text, indexOf(lower, phrase) + Len(phrase)))

\* The gate's functions on the texts of the model, computed once.
AllTexts == Texts \cup TypedTexts
hasEndPhrase == [text \in AllTexts |-> containsEndPhrase(text)]
hasWakeWord == [text \in AllTexts |-> containsWakeWord(text)]
afterWakeWord == [text \in AllTexts |-> extractAfterWakeWord(text)]

(***************************************************************************)
(* State.                                                                  *)
(***************************************************************************)
VARIABLES
  now,                 \* Date.now()
  status,              \* status / statusRef
  mode,                \* mode
  conversationState,   \* conversationState / conversationStateRef
  isConnected,         \* isConnected
  error,               \* error
  chatHistory,         \* chatHistory: sequence of [role, content]
  wsRef,               \* wsRef: index into sockets, or null
  sockets,             \* readyState of every WebSocket created
  mediaRecorderRef,    \* mediaRecorderRef: index into recorders, or null
  recorders,           \* every MediaRecorder created
  streamRef,           \* streamRef: number of the stream held, or null
  analyserRef,         \* analyserRef: TRUE when an analyser is attached
  streams,             \* device streams acquired so far
  pendingMedia,        \* getUserMedia requests in flight, by awaiting caller
  volumeIntervalRef,   \* volumeIntervalRef: TRUE when the timer runs
  currentResponseRef,  \* currentResponseRef: the tokens appended, in order
  isSpeakingRef,       \* isSpeakingRef
  silenceStartRef,     \* silenceStartRef: timestamp or null
  speechStartRef,      \* speechStartRef: timestamp or null
  vadEnabledRef,       \* vadEnabledRef
  isRecordingRef,      \* isRecordingRef
  cooldownUntilRef,    \* cooldownUntilRef
  initTimer,           \* TRUE while the mount timer of initHandsFree is pending
  encoding,            \* blob.arrayBuffer() calls of recorder.onstop in flight
  audios,              \* reply audio elements playing, each holding an
                       \* object URL that is not yet revoked
  chunksRef,           \* chunksRef: the fragments buffered, in order
  stoppedStreams,      \* device streams whose tracks have been stopped
  mounted,             \* TRUE until the component is unmounted
  blob,                \* history: the recorder and the fragments of the
                       \* blob built by the recorder.onstop handled in the
                       \* last step, or <<>>
  sent,                \* history: messages sent in the last step
  heard,               \* history: text of the transcription handled in the
                       \* last step, or ""
  event,               \* history: the connection event, reply event or
                       \* command handled in the last step, or <<>>
  turnTokens,          \* history: the tokens received since the current
                       \* turn started, in arrival order
  runStart,            \* history: time of the first sample of the current
                       \* unbroken run of samples above vadThreshold, or null
  quietStart           \* history: time of the first sample of the current
                       \* unbroken run of samples below vadThreshold taken
                       \* during one capture, or null

vars ==
  <<now, status, mode, conversationState, isConnected, error,
    chatHistory, wsRef, sockets, mediaRecorderRef, recorders, streamRef,
    analyserRef, streams, pendingMedia, volumeIntervalRef,
    currentResponseRef, isSpeakingRef, silenceStartRef, speechStartRef,
    vadEnabledRef, isRecordingRef, cooldownUntilRef, initTimer, encoding,
    audios, chunksRef, stoppedStreams, mounted, blob, sent, heard, event,
    turnTokens, runStart, quietStart>>

vadVars == <<isSpeakingRef, silenceStartRef, speechStartRef, vadEnabledRef>>
recVars == <<mediaRecorderRef, recorders, isRecordingRef>>
mediaVars == <<streamRef, analyserRef, streams, pendingMedia>>
lifeVars == <<stoppedStreams, mounted>>
wsVars == <<wsRef, sockets, isConnected>>
chatVars == <<conversationState, chatHistory, currentResponseRef>>

noError == "null"     \* error === null

\* Callers that await setupAudio.
Awaiters == {"init", "setMode", "startUser", "startVad"}

\* Calls of startRecordingInternal waiting for the device.
PendingStarts == pendingMedia["startUser"] + pendingMedia["startVad"]

PendingCount ==
  pendingMedia["init"] + pendingMedia["setMode"] + pendingMedia["startUser"]
    + pendingMedia["startVad"]

Init ==
  /\ now = TickMs
  /\ status = "idle"
  /\ mode = "hands-free"
  /\ conversationState = "waiting"
  /\ isConnected = FALSE
  /\ error = noError
  /\ chatHistory = <<>>
  /\ wsRef = 1                       \* connectWebSocket ran on mount
  /\ sockets = <<"connecting">>
  /\ mediaRecorderRef = null
  /\ recorders = <<>>
  /\ streamRef = null
  /\ analyserRef = FALSE
  /\ streams = 0
  /\ pendingMedia = [a \in Awaiters |-> 0]
  /\ volumeIntervalRef = FALSE
  /\ currentResponseRef = <<>>
  /\ isSpeakingRef = FALSE
  /\ silenceStartRef = null
  /\ speechStartRef = null
  /\ vadEnabledRef = FALSE
  /\ isRecordingRef = FALSE
  /\ cooldownUntilRef = 0
  /\ initTimer = TRUE                \* setTimeout(initHandsFree, 500) is pending
  /\ encoding = 0
  /\ audios = 0
  /\ chunksRef = <<>>
  /\ stoppedStreams = {}
  /\ mounted = TRUE
  /\ blob = <<>>
  /\ sent = <<>>
  /\ heard = ""
  /\ event = <<>>
  /\ turnTokens = <<>>
  /\ runStart = null
  /\ quietStart = null

(***************************************************************************)
(* Helpers shared by the handlers.                                         *)
(***************************************************************************)
\* wsRef.current?.readyState === WebSocket.OPEN
WsIsOpen == wsRef # null /\ sockets[wsRef] = "open"

\* A MediaRecorder that captures audio.
Capturing(r) == recorders[r].state = "recording"
ActiveCaptures == {r \in 1..Len(recorders) : Capturing(r)}

\* getVolume(): 0 without an analyser, else the level the analyser reports.
getVolume(level) == IF ~analyserRef THEN 0 ELSE level

\* A detector that does not look at the cooldown window.
canListenNoCooldown(t) ==
  /\ vadEnabledRef
  /\ ~isRecordingRef
  /\ status # "processing"
  /\ status # "speaking"

\* canListen of the sampling callback, at time t.
canListen(t) ==
  /\ vadEnabledRef
  /\ ~isRecordingRef
  /\ ~(t < cooldownUntilRef)
  /\ status # "processing"
  /\ status # "speaking"

\* A detector with the comparison turned around.
soundDetectedBelow(vol) == vol < vadThreshold

\* vol > cfg.vadThreshold
soundDetected(vol) == vol > vadThreshold

\* now - speechStartRef.current > cfg.speechMinDuration
speechConfirmed(t) == t - speechStartRef > speechMinDuration

\* Date.now() - silenceStartRef.current > cfg.silenceDuration
silenceElapsed(t) == t - silenceStartRef > silenceDuration

(***************************************************************************)
(* Recording.                                                              *)
(***************************************************************************)
\* startRecordingInternal after `await setupAudio()`: the buffer is replaced
\* by an empty one and a new MediaRecorder is created on the stream and
\* started.  `by` records who asked for it, `fragments` counts the fragments
\* the recorder has delivered.
recorderStart(by, stream) ==
  /\ Len(recorders) < MaxRecorders
  /\ chunksRef' = <<>>
  /\ recorders' =
       Append(recorders, [state |-> "recording", stopQueued |-> FALSE,
                          by |-> by, stream |-> stream, fragments |-> 0])
  /\ quietStart' = null
  /\ mediaRecorderRef' = Len(recorders) + 1
  /\ isRecordingRef' = TRUE
  /\ status' = "recording"

\* startRecordingInternal up to the completion of a cached setupAudio, or up
\* to the getUserMedia request when no stream is cached.
startRecordingInternal(by) ==
  IF isRecordingRef
  THEN UNCHANGED <<recVars, status, pendingMedia, quietStart, chunksRef>>
  ELSE IF streamRef # null
       THEN recorderStart(by, streamRef) /\ UNCHANGED pendingMedia
       ELSE /\ PendingCount < MaxPending
            /\ pendingMedia' = [pendingMedia EXCEPT ![by] = @ + 1]
            /\ UNCHANGED <<recVars, status, quietStart, chunksRef>>

\* stopRecordingInternal: MediaRecorder.stop() makes the recorder inactive at
\* once and queues its stop event.
stopRecordingInternal ==
  IF ~isRecordingRef \/ mediaRecorderRef = null
  THEN UNCHANGED recorders
  ELSE IF recorders[mediaRecorderRef].state = "recording"
       THEN recorders' = [recorders EXCEPT ![mediaRecorderRef] =
                            [@ EXCEPT !.state = "inactive", !.stopQueued = TRUE]]
       ELSE UNCHANGED recorders

\* recorder.ondataavailable of recorder r with a fragment that is not empty:
\* the fragment, named by its recorder and its number, is pushed on the
\* buffer.  A recorder delivers fragments while it records and once more
\* after stop(), before its stop event.
DataAvailable(r) ==
  /\ r \in 1..Len(recorders)
  /\ recorders[r].state = "recording" \/ recorders[r].stopQueued
  /\ recorders[r].fragments < MaxFragments
  /\ Len(chunksRef) < MaxChunks
  /\ recorders' = [recorders EXCEPT ![r].fragments = @ + 1]
  /\ chunksRef' = Append(chunksRef, <<r, recorders[r].fragments + 1>>)
  /\ sent' = <<>>
  /\ heard' = ""
  /\ event' = <<>>
  /\ turnTokens' = turnTokens
  /\ blob' = <<>>
  /\ UNCHANGED lifeVars
  /\ UNCHANGED <<now, status, mode, chatVars, wsVars, error, mediaRecorderRef,
                 isRecordingRef, mediaVars, volumeIntervalRef, runStart,
                 quietStart, vadVars, cooldownUntilRef, initTimer, encoding,
                 audios>>

\* A stop handler that leaves the status alone when there is no connection.
RecorderOnStopQuiet(r) ==
  /\ r \in 1..Len(recorders)
  /\ recorders[r].stopQueued
  /\ recorders' = [recorders EXCEPT ![r].stopQueued = FALSE]
  /\ isRecordingRef' = FALSE
  /\ blob' = <<r, chunksRef>>
  /\ IF WsIsOpen
     THEN /\ status' = "processing"
          /\ encoding' = encoding + 1
          /\ UNCHANGED <<error, chunksRef>>
     ELSE /\ status' = status
          /\ error' = "Not connected to server"
          /\ chunksRef' = <<>>
          /\ UNCHANGED encoding
  /\ sent' = <<>>
  /\ heard' = ""
  /\ event' = <<>>
  /\ turnTokens' = turnTokens
  /\ UNCHANGED lifeVars
  /\ UNCHANGED <<now, mode, chatVars, wsVars, mediaRecorderRef,
                 mediaVars, volumeIntervalRef, runStart, quietStart, vadVars,
                 cooldownUntilRef, initTimer, audios>>

\* recorder.onstop of recorder r, up to `await blob.arrayBuffer()`: the blob
\* is built from the buffer before the await.
RecorderOnStop(r) ==
  /\ r \in 1..Len(recorders)
  /\ recorders[r].stopQueued
  /\ recorders' = [recorders EXCEPT ![r].stopQueued = FALSE]
  /\ isRecordingRef' = FALSE
  /\ blob' = <<r, chunksRef>>
  /\ IF WsIsOpen
     THEN /\ status' = "processing"
          /\ encoding' = encoding + 1
          /\ UNCHANGED <<error, chunksRef>>
     ELSE /\ status' = "error"
          /\ error' = "Not connected to server"
          /\ chunksRef' = <<>>
          /\ UNCHANGED encoding
  /\ sent' = <<>>
  /\ heard' = ""
  /\ event' = <<>>
  /\ turnTokens' = turnTokens
  /\ UNCHANGED lifeVars
  /\ UNCHANGED <<now, mode, chatVars, wsVars, mediaRecorderRef,
                 mediaVars, volumeIntervalRef, runStart, quietStart, vadVars,
                 cooldownUntilRef, initTimer, audios>>

\* recorder.onstop after `await blob.arrayBuffer()`: wsRef.current.send, then
\* the buffer is replaced by an empty one.  A socket that is closing or
\* closed drops the data; a connecting one throws, and the handler ends
\* before it reaches the buffer.
BlobEncoded ==
  /\ encoding > 0
  /\ encoding' = encoding - 1
  /\ sent' = IF WsIsOpen THEN <<[type |-> "audio", text |-> ""]>> ELSE <<>>
  /\ chunksRef' = IF wsRef # null /\ sockets[wsRef] = "connecting"
                  THEN chunksRef ELSE <<>>
  /\ heard' = ""
  /\ event' = <<>>
  /\ turnTokens' = turnTokens
  /\ blob' = <<>>
  /\ UNCHANGED lifeVars
  /\ UNCHANGED <<now, status, mode, chatVars, isConnected, error,
                 wsRef, sockets, recVars, mediaVars, volumeIntervalRef,
                 runStart, quietStart, vadVars, cooldownUntilRef, initTimer, audios>>

(***************************************************************************)
(* Level sampling and voice-activity detection.                            *)
(***************************************************************************)
\* The setInterval callback of startVolumeMonitoring.  startRecordingInternal
\* is asynchronous, so the second block of the callback still reads the old
\* isRecordingRef.  With recorderOk false the callback is one in which the
\* detector starts a recording and the MediaRecorder cannot be created or
\* started: startRecordingInternal has replaced the buffer, the exception is
\* caught, the error and the status error are set.
Sample(level, maxTicks, recorderOk) ==
  /\ volumeIntervalRef
  /\ now < maxTicks * TickMs
  /\ now' = now + TickMs
  /\ LET t == now + TickMs
         vol == getVolume(level)
         listen == canListen(t)
         loud == soundDetected(vol)
         starts == listen /\ loud /\ speechStartRef # null /\ speechConfirmed(t)
         silence1 == IF listen /\ loud THEN null ELSE silenceStartRef
         speech1 == IF ~listen THEN speechStartRef
                    ELSE IF ~loud THEN null
                    ELSE IF speechStartRef = null THEN t ELSE speechStartRef
         speaking1 == IF starts THEN TRUE ELSE isSpeakingRef
         watch == vadEnabledRef /\ isRecordingRef /\ speaking1
         quiet == vol < vadThreshold
         stops == watch /\ quiet /\ silence1 # null /\ silenceElapsed(t)
         fails == starts /\ ~recorderOk /\ streamRef # null
     IN /\ recorderOk \/ fails
        /\ event' = IF fails THEN <<"startFailed">> ELSE <<>>
        /\ runStart' = IF ~(vol > vadThreshold) THEN null
                       ELSE IF runStart = null THEN t ELSE runStart
        /\ speechStartRef' = speech1
        /\ silenceStartRef' =
             IF ~watch THEN silence1
             ELSE IF ~quiet THEN null
             ELSE IF silence1 = null THEN t
             ELSE IF stops THEN null ELSE silence1
        /\ isSpeakingRef' = IF stops THEN FALSE ELSE speaking1
        /\ IF fails
           THEN /\ chunksRef' = <<>>
                /\ error' = "Failed to start recording"
                /\ status' = "error"
                /\ quietStart' = IF ~quiet \/ ActiveCaptures = {} THEN null
                                 ELSE IF quietStart = null THEN t ELSE quietStart
                /\ UNCHANGED <<recVars, pendingMedia>>
           ELSE IF starts
           THEN startRecordingInternal("startVad") /\ UNCHANGED error
           ELSE /\ IF stops THEN stopRecordingInternal ELSE UNCHANGED recorders
                /\ UNCHANGED error
                /\ quietStart' = IF ~quiet \/ ActiveCaptures = {} THEN null
                                 ELSE IF quietStart = null THEN t ELSE quietStart
                /\ UNCHANGED <<mediaRecorderRef, isRecordingRef, status,
                               pendingMedia, chunksRef>>
  /\ sent' = <<>>
  /\ heard' = ""
  /\ turnTokens' = turnTokens
  /\ blob' = <<>>
  /\ UNCHANGED lifeVars
  /\ UNCHANGED <<mode, chatVars, wsVars, streamRef, analyserRef,
                 streams, volumeIntervalRef, vadEnabledRef, cooldownUntilRef,
                 initTimer, encoding, audios>>

VolumeTick(level) == Sample(level, MaxTicks, TRUE)

\* A sample at which the detector's start of a recording fails.
FailingTick(level) == Sample(level, MaxRetryTicks, FALSE)

\* A timer period passes while the sampling timer is not running.
Idle(maxTicks) ==
  /\ ~volumeIntervalRef
  /\ now < maxTicks * TickMs
  /\ now' = now + TickMs
  /\ sent' = <<>>
  /\ heard' = ""
  /\ event' = <<>>
  /\ turnTokens' = turnTokens
  /\ blob' = <<>>
  /\ UNCHANGED <<chunksRef, lifeVars>>
  /\ UNCHANGED <<status, mode, chatVars, wsVars, error, recVars,
                 mediaVars, volumeIntervalRef, runStart, quietStart, vadVars,
                 cooldownUntilRef, initTimer, encoding, audios>>

TimePasses == Idle(MaxTicks)

\* vadEnabledRef.current = true; startVolumeMonitoring(); setStatus("listening")
handsFreeActive ==
  /\ vadEnabledRef' = TRUE
  /\ volumeIntervalRef' = TRUE
  /\ status' = "listening"

\* stopVolumeMonitoring: clearInterval; the run of samples ends.
stopVolumeMonitoring ==
  /\ volumeIntervalRef' = FALSE
  /\ runStart' = null
  /\ quietStart' = null

(***************************************************************************)
(* Hands-free initialisation, mode switch and device acquisition.          *)
(***************************************************************************)
\* The mount timer fires: initHandsFree up to the completion of a cached
\* setupAudio or to the getUserMedia request.  The effect's closure holds
\* the mode of the first render, hands-free, so its test of mode always
\* passes.  The 500 ms delay is not measured: the timer fires at any step.
InitHandsFree ==
  /\ initTimer
  /\ initTimer' = FALSE
  /\ IF streamRef # null
     THEN handsFreeActive /\ UNCHANGED pendingMedia
     ELSE /\ PendingCount < MaxPending
          /\ pendingMedia' = [pendingMedia EXCEPT !["init"] = @ + 1]
          /\ UNCHANGED <<vadEnabledRef, volumeIntervalRef, status>>
  /\ sent' = <<>>
  /\ heard' = ""
  /\ event' = <<>>
  /\ turnTokens' = turnTokens
  /\ blob' = <<>>
  /\ UNCHANGED <<chunksRef, lifeVars>>
  /\ UNCHANGED <<now, mode, chatVars, wsVars, error, runStart, quietStart,
                 recVars, streamRef, analyserRef, streams, isSpeakingRef,
                 silenceStartRef, speechStartRef, cooldownUntilRef, encoding,
                 audios>>

\* setMode(newMode), up to the getUserMedia request when it has to make one.
SetMode(newMode) ==
  /\ mode' = newMode
  /\ IF newMode = "hands-free"
     THEN /\ IF streamRef # null
             THEN handsFreeActive /\ UNCHANGED pendingMedia
             ELSE /\ PendingCount < MaxPending
                  /\ pendingMedia' = [pendingMedia EXCEPT !["setMode"] = @ + 1]
                  /\ UNCHANGED <<vadEnabledRef, volumeIntervalRef, status>>
          /\ UNCHANGED <<isSpeakingRef, silenceStartRef, speechStartRef,
                         recorders, runStart, quietStart>>
     ELSE /\ vadEnabledRef' = FALSE
          /\ isSpeakingRef' = FALSE
          /\ silenceStartRef' = null
          /\ speechStartRef' = null
          /\ IF isRecordingRef THEN stopRecordingInternal ELSE UNCHANGED recorders
          /\ stopVolumeMonitoring
          /\ status' = "idle"
          /\ UNCHANGED pendingMedia
  /\ sent' = <<>>
  /\ heard' = ""
  /\ event' = <<>>
  /\ turnTokens' = turnTokens
  /\ blob' = <<>>
  /\ UNCHANGED <<chunksRef, lifeVars>>
  /\ UNCHANGED <<now, chatVars, wsVars, error, mediaRecorderRef,
                 isRecordingRef, streamRef, analyserRef, streams,
                 cooldownUntilRef, initTimer, encoding, audios>>

\* getUserMedia resolves for awaiter a: setupAudio stores the stream and the
\* analyser, and the awaiting function continues.
MediaResolved(a) ==
  /\ pendingMedia[a] > 0
  /\ pendingMedia' = [pendingMedia EXCEPT ![a] = @ - 1]
  /\ streams' = streams + 1
  /\ streamRef' = streams + 1
  /\ analyserRef' = TRUE
  /\ IF a \in {"init", "setMode"}
     THEN handsFreeActive /\ UNCHANGED <<recVars, quietStart, chunksRef>>
     ELSE /\ recorderStart(a, streams + 1)
          /\ UNCHANGED <<vadEnabledRef, volumeIntervalRef>>
  /\ sent' = <<>>
  /\ heard' = ""
  /\ event' = <<>>
  /\ turnTokens' = turnTokens
  /\ blob' = <<>>
  /\ UNCHANGED lifeVars
  /\ UNCHANGED <<now, mode, chatVars, wsVars, error, runStart,
                 isSpeakingRef, silenceStartRef, speechStartRef,
                 cooldownUntilRef, initTimer, encoding, audios>>

\* getUserMedia rejects for awaiter a: setupAudio sets its error and throws;
\* initHandsFree and startRecordingInternal catch, setMode does not.
MediaRejected(a) ==
  /\ pendingMedia[a] > 0
  /\ pendingMedia' = [pendingMedia EXCEPT ![a] = @ - 1]
  /\ error' = CASE a = "init" -> "Microphone access required"
                [] a = "setMode" -> "Microphone access denied"
                [] OTHER -> "Failed to start recording"
  /\ status' = IF a \in {"startUser", "startVad"} THEN "error" ELSE status
  /\ sent' = <<>>
  /\ heard' = ""
  /\ event' = <<"rejected", a>>
  /\ turnTokens' = turnTokens
  /\ blob' = <<>>
  /\ UNCHANGED <<chunksRef, lifeVars>>
  /\ UNCHANGED <<now, mode, chatVars, wsVars, recVars, streamRef,
                 analyserRef, streams, volumeIntervalRef, runStart, quietStart, vadVars,
                 cooldownUntilRef, initTimer, encoding, audios>>

(***************************************************************************)
(* Recording commands.                                                     *)
(***************************************************************************)
\* A start command that does not look at the mode.
startRecordingAnyMode == startRecordingInternal("startUser")

startRecording ==
  IF mode = "push-to-talk"
  THEN startRecordingInternal("startUser")
  ELSE UNCHANGED <<recVars, status, pendingMedia, quietStart, chunksRef>>

stopRecording ==
  IF mode = "push-to-talk"
  THEN stopRecordingInternal
  ELSE UNCHANGED recorders

\* The commands startRecording, stopRecording and toggleRecording; tag is
\* what the step leaves in the event history.
StartRecordingAs(tag) ==
  /\ startRecording
  /\ sent' = <<>>
  /\ heard' = ""
  /\ event' = tag
  /\ turnTokens' = turnTokens
  /\ blob' = <<>>
  /\ UNCHANGED lifeVars
  /\ UNCHANGED <<now, mode, chatVars, wsVars, error, streamRef,
                 analyserRef, streams, volumeIntervalRef, runStart, vadVars,
                 cooldownUntilRef, initTimer, encoding, audios>>

StartRecording == StartRecordingAs(<<>>)

StopRecordingAs(tag) ==
  /\ stopRecording
  /\ sent' = <<>>
  /\ heard' = ""
  /\ event' = tag
  /\ turnTokens' = turnTokens
  /\ blob' = <<>>
  /\ UNCHANGED <<chunksRef, lifeVars>>
  /\ UNCHANGED <<now, status, mode, chatVars, wsVars, error,
                 mediaRecorderRef, isRecordingRef, mediaVars,
                 volumeIntervalRef, runStart, quietStart, vadVars, cooldownUntilRef,
                 initTimer, encoding, audios>>

StopRecording == StopRecordingAs(<<>>)

ToggleRecordingAs(tag) ==
  /\ IF isRecordingRef
     THEN /\ stopRecording
          /\ UNCHANGED <<mediaRecorderRef, isRecordingRef, status, pendingMedia,
                         quietStart, chunksRef>>
     ELSE startRecording
  /\ sent' = <<>>
  /\ heard' = ""
  /\ event' = tag
  /\ turnTokens' = turnTokens
  /\ blob' = <<>>
  /\ UNCHANGED lifeVars
  /\ UNCHANGED <<now, mode, chatVars, wsVars, error, streamRef,
                 analyserRef, streams, volumeIntervalRef, runStart, vadVars,
                 cooldownUntilRef, initTimer, encoding, audios>>

ToggleRecording == ToggleRecordingAs(<<>>)

(***************************************************************************)
(* The connection.                                                         *)
(***************************************************************************)
Msg(type, text) == [type |-> type, text |-> text]

\* JSON.stringify({ type: "config", sampleRate: cfg.sampleRate })
ConfigMsg == [type |-> "config", sampleRate |-> sampleRate]

\* An open handler that sends no configuration.
WsOpenSilent(s) ==
  /\ s \in 1..Len(sockets)
  /\ sockets[s] = "connecting"
  /\ sockets' = [sockets EXCEPT ![s] = "open"]
  /\ isConnected' = TRUE
  /\ error' = noError
  /\ sent' = <<>>
  /\ heard' = ""
  /\ event' = <<>>
  /\ turnTokens' = turnTokens
  /\ blob' = <<>>
  /\ UNCHANGED <<chunksRef, lifeVars>>
  /\ UNCHANGED <<now, status, mode, chatVars, wsRef, recVars,
                 mediaVars, volumeIntervalRef, runStart, quietStart, vadVars,
                 cooldownUntilRef, initTimer, encoding, audios>>

\* ws.onopen of socket s.
WsOpen(s) ==
  /\ s \in 1..Len(sockets)
  /\ sockets[s] = "connecting"
  /\ sockets' = [sockets EXCEPT ![s] = "open"]
  /\ isConnected' = TRUE
  /\ error' = noError
  /\ sent' = <<ConfigMsg>>
  /\ heard' = ""
  /\ event' = <<>>
  /\ turnTokens' = turnTokens
  /\ blob' = <<>>
  /\ UNCHANGED <<chunksRef, lifeVars>>
  /\ UNCHANGED <<now, status, mode, chatVars, wsRef, recVars,
                 mediaVars, volumeIntervalRef, runStart, quietStart, vadVars,
                 cooldownUntilRef, initTimer, encoding, audios>>

\* A close that also resets the session.
WsCloseReset(s) ==
  /\ s \in 1..Len(sockets)
  /\ sockets[s] \in {"open", "closing"}
  /\ sockets' = [sockets EXCEPT ![s] = "closed"]
  /\ isConnected' = FALSE
  /\ status' = "idle"
  /\ conversationState' = "waiting"
  /\ sent' = <<>>
  /\ heard' = ""
  /\ event' = <<"close">>
  /\ turnTokens' = turnTokens
  /\ blob' = <<>>
  /\ UNCHANGED <<chunksRef, lifeVars>>
  /\ UNCHANGED <<now, mode, chatHistory, currentResponseRef, error, wsRef, recVars,
                 mediaVars, volumeIntervalRef, runStart, quietStart, vadVars,
                 cooldownUntilRef, initTimer, encoding, audios>>

\* A close handler that connects again by itself.
WsCloseReconnect(s) ==
  /\ s \in 1..Len(sockets)
  /\ sockets[s] \in {"open", "closing"}
  /\ sockets' = IF s = wsRef /\ Len(sockets) < MaxSockets
                THEN Append([sockets EXCEPT ![s] = "closed"], "connecting")
                ELSE [sockets EXCEPT ![s] = "closed"]
  /\ wsRef' = IF s = wsRef /\ Len(sockets) < MaxSockets
              THEN Len(sockets) + 1 ELSE wsRef
  /\ isConnected' = FALSE
  /\ sent' = <<>>
  /\ heard' = ""
  /\ event' = <<"close">>
  /\ turnTokens' = turnTokens
  /\ blob' = <<>>
  /\ UNCHANGED <<chunksRef, lifeVars>>
  /\ UNCHANGED <<now, status, mode, chatVars, error, recVars,
                 mediaVars, volumeIntervalRef, runStart, quietStart, vadVars,
                 cooldownUntilRef, initTimer, encoding, audios>>

\* ws.onclose of socket s.
WsClose(s) ==
  /\ s \in 1..Len(sockets)
  /\ sockets[s] \in {"open", "closing"}
  /\ sockets' = [sockets EXCEPT ![s] = "closed"]
  /\ isConnected' = FALSE
  /\ sent' = <<>>
  /\ heard' = ""
  /\ event' = <<"close">>
  /\ turnTokens' = turnTokens
  /\ blob' = <<>>
  /\ UNCHANGED <<chunksRef, lifeVars>>
  /\ UNCHANGED <<now, status, mode, chatVars, error, wsRef, recVars,
                 mediaVars, volumeIntervalRef, runStart, quietStart, vadVars,
                 cooldownUntilRef, initTimer, encoding, audios>>

\* ws.onerror of socket s; the browser then closes the connection.
WsError(s) ==
  /\ s \in 1..Len(sockets)
  /\ sockets[s] \in {"connecting", "open"}
  /\ sockets' = [sockets EXCEPT ![s] = "closing"]
  /\ error' = "Connection failed"
  /\ isConnected' = FALSE
  /\ sent' = <<>>
  /\ heard' = ""
  /\ event' = <<"error">>
  /\ turnTokens' = turnTokens
  /\ blob' = <<>>
  /\ UNCHANGED <<chunksRef, lifeVars>>
  /\ UNCHANGED <<now, status, mode, chatVars, wsRef, recVars,
                 mediaVars, volumeIntervalRef, runStart, quietStart, vadVars,
                 cooldownUntilRef, initTimer, encoding, audios>>

\* reconnect: wsRef.current?.close(), then connectWebSocket, which finds the
\* old socket closing (not open) and creates a new one.
Reconnect ==
  /\ Len(sockets) < MaxSockets
  /\ LET closed == IF wsRef # null /\ sockets[wsRef] \in {"connecting", "open"}
                   THEN [sockets EXCEPT ![wsRef] = "closing"]
                   ELSE sockets
     IN /\ sockets' = Append(closed, "connecting")
        /\ wsRef' = Len(sockets) + 1
  /\ sent' = <<>>
  /\ heard' = ""
  /\ event' = <<>>
  /\ turnTokens' = turnTokens
  /\ blob' = <<>>
  /\ UNCHANGED <<chunksRef, lifeVars>>
  /\ UNCHANGED <<now, status, mode, chatVars, isConnected, error,
                 recVars, mediaVars, volumeIntervalRef, runStart, quietStart, vadVars,
                 cooldownUntilRef, initTimer, encoding, audios>>

\* A socket on which the server's messages arrive.
Receiving(s) == s \in 1..Len(sockets) /\ sockets[s] = "open"

User(content) == [role |-> "user", content |-> content]
Assistant(content) == [role |-> "assistant", content |-> content]

RECURSIVE Concat(_)
Concat(tokens) ==
  IF tokens = <<>> THEN "" ELSE Head(tokens) \o Concat(Tail(tokens))

\* An end of conversation that leaves the status as it is.
endConversationKeepStatus ==
  /\ conversationState' = "waiting"
  /\ sent' = IF WsIsOpen THEN <<Msg("end_conversation", "")>> ELSE <<>>
  /\ UNCHANGED <<status, chatHistory, currentResponseRef>>

\* An end of conversation that signals the server with a message of
\* another type.
endConversationGoodbye ==
  /\ conversationState' = "waiting"
  /\ sent' = IF WsIsOpen THEN <<Msg("goodbye", "")>> ELSE <<>>
  /\ status' = "idle"
  /\ UNCHANGED <<chatHistory, currentResponseRef>>

\* Case "transcription", an end phrase in the text: the conversation ends.
endConversation ==
  /\ conversationState' = "waiting"
  /\ sent' = IF WsIsOpen THEN <<Msg("end_conversation", "")>> ELSE <<>>
  /\ status' = "idle"
  /\ UNCHANGED <<chatHistory, currentResponseRef>>

\* A gate that needs no wake word.
waitingForNothing(text) ==
  /\ conversationState' = "active"
  /\ status' = "processing"
  /\ Len(chatHistory) < MaxChat
  /\ chatHistory' = Append(chatHistory, User(text))
  /\ currentResponseRef' = <<>>
  /\ sent' = IF WsIsOpen THEN <<Msg("text", text)>> ELSE <<>>

\* A wake branch that takes any trailing text as a query.
waitingForWakeAnyLength(text) ==
  IF hasWakeWord[text]
  THEN /\ conversationState' = "active"
       /\ LET afterWake == afterWakeWord[text]
          IN IF afterWake # ""
             THEN /\ status' = "processing"
                  /\ Len(chatHistory) < MaxChat
                  /\ chatHistory' = Append(chatHistory, User(afterWake))
                  /\ currentResponseRef' = <<>>
                  /\ sent' = IF WsIsOpen THEN <<Msg("text", afterWake)>> ELSE <<>>
             ELSE /\ status' = "idle"
                  /\ sent' = <<>>
                  /\ UNCHANGED <<chatHistory, currentResponseRef>>
  ELSE /\ status' = "idle"
       /\ sent' = <<>>
       /\ UNCHANGED chatVars

\* Case "transcription" while waiting for the wake word.
waitingForWake(text) ==
  IF hasWakeWord[text]
  THEN /\ conversationState' = "active"
       /\ LET afterWake == afterWakeWord[text]
          IN IF afterWake # "" /\ Len(afterWake) > MinQueryLen
             THEN /\ status' = "processing"
                  /\ Len(chatHistory) < MaxChat
                  /\ chatHistory' = Append(chatHistory, User(afterWake))
                  /\ currentResponseRef' = <<>>
                  /\ sent' = IF WsIsOpen THEN <<Msg("text", afterWake)>> ELSE <<>>
             ELSE /\ status' = "idle"
                  /\ sent' = <<>>
                  /\ UNCHANGED <<chatHistory, currentResponseRef>>
  ELSE /\ status' = "idle"
       /\ sent' = <<>>
       /\ UNCHANGED chatVars

\* An active conversation that logs the text cut after the wake phrase.
activeConversationCut(text) ==
  /\ status' = "processing"
  /\ Len(chatHistory) < MaxChat
  /\ chatHistory' = Append(chatHistory, User(afterWakeWord[text]))
  /\ currentResponseRef' = <<>>
  /\ sent' = <<>>
  /\ UNCHANGED conversationState

\* Case "transcription" in an active conversation.
activeConversation(text) ==
  /\ status' = "processing"
  /\ Len(chatHistory) < MaxChat
  /\ chatHistory' = Append(chatHistory, User(text))
  /\ currentResponseRef' = <<>>
  /\ sent' = <<>>
  /\ UNCHANGED conversationState

\* A gate that looks for the wake word before the end phrase.
gateWakeFirst(text) ==
  IF conversationState = "waiting" /\ hasWakeWord[text]
  THEN waitingForWake(text)
  ELSE IF hasEndPhrase[text] THEN endConversation
  ELSE IF conversationState = "waiting" THEN waitingForWake(text)
  ELSE activeConversation(text)

\* The order of the checks in case "transcription".
gate(text) ==
  IF hasEndPhrase[text] THEN endConversation
  ELSE IF conversationState = "waiting" THEN waitingForWake(text)
  ELSE activeConversation(text)

\* ws.onmessage, case "transcription".
Transcription(s, text) ==
  /\ Receiving(s)
  /\ heard' = text
  /\ gate(text)
  /\ event' = <<>>
  /\ turnTokens' = IF chatHistory' # chatHistory THEN <<>> ELSE turnTokens
  /\ blob' = <<>>
  /\ UNCHANGED <<chunksRef, lifeVars>>
  /\ UNCHANGED <<now, mode, wsVars, error, recVars, mediaVars,
                 volumeIntervalRef, runStart, quietStart, vadVars,
                 cooldownUntilRef, initTimer, encoding, audios>>

\* ws.onmessage, case "response" with done false: one more token.
ResponseToken(s, token) ==
  /\ Receiving(s)
  /\ Len(currentResponseRef) < MaxTokens
  /\ Len(turnTokens) < MaxTokens
  /\ currentResponseRef' = Append(currentResponseRef, token)
  /\ status' = "speaking"
  /\ sent' = <<>>
  /\ heard' = ""
  /\ event' = <<>>
  /\ turnTokens' = Append(turnTokens, token)
  /\ blob' = <<>>
  /\ UNCHANGED <<chunksRef, lifeVars>>
  /\ UNCHANGED <<now, mode, conversationState, chatHistory, wsVars, error,
                 recVars, mediaVars, volumeIntervalRef, runStart, quietStart,
                 vadVars, cooldownUntilRef, initTimer, encoding, audios>>

\* A terminal response that opens no cooldown window.
ResponseDoneNoCooldown(s, full_text, has_audio) ==
  /\ Receiving(s)
  /\ LET finalText == IF full_text # "" THEN full_text
                      ELSE Concat(currentResponseRef)
     IN IF finalText # ""
        THEN /\ Len(chatHistory) < MaxChat
             /\ chatHistory' = Append(chatHistory, Assistant(finalText))
        ELSE UNCHANGED chatHistory
  /\ currentResponseRef' = <<>>
  /\ IF ~has_audio
     THEN /\ cooldownUntilRef' = cooldownUntilRef
          /\ status' = "idle"
     ELSE UNCHANGED <<cooldownUntilRef, status>>
  /\ sent' = <<>>
  /\ heard' = ""
  /\ event' = <<"response", full_text, IF has_audio THEN "audio" ELSE "text">>
  /\ turnTokens' = <<>>
  /\ blob' = <<>>
  /\ UNCHANGED <<chunksRef, lifeVars>>
  /\ UNCHANGED <<now, mode, conversationState, wsVars, error,
                 recVars, mediaVars, volumeIntervalRef, runStart, quietStart, vadVars,
                 initTimer, encoding, audios>>

\* ws.onmessage, case "response" with done true.
ResponseDone(s, full_text, has_audio) ==
  /\ Receiving(s)
  /\ LET finalText == IF full_text # "" THEN full_text
                      ELSE Concat(currentResponseRef)
     IN IF finalText # ""
        THEN /\ Len(chatHistory) < MaxChat
             /\ chatHistory' = Append(chatHistory, Assistant(finalText))
        ELSE UNCHANGED chatHistory
  /\ currentResponseRef' = <<>>
  /\ IF ~has_audio
     THEN /\ cooldownUntilRef' = now + CooldownMs
          /\ status' = "idle"
     ELSE UNCHANGED <<cooldownUntilRef, status>>
  /\ sent' = <<>>
  /\ heard' = ""
  /\ event' = <<"response", full_text, IF has_audio THEN "audio" ELSE "text">>
  /\ turnTokens' = <<>>
  /\ blob' = <<>>
  /\ UNCHANGED <<chunksRef, lifeVars>>
  /\ UNCHANGED <<now, mode, conversationState, wsVars, error,
                 recVars, mediaVars, volumeIntervalRef, runStart, quietStart, vadVars,
                 initTimer, encoding, audios>>

\* A handler of case "error" that shows a text of its own.
ServerErrorGeneric(s, message) ==
  /\ Receiving(s)
  /\ error' = "Server error"
  /\ status' = "error"
  /\ sent' = <<>>
  /\ heard' = ""
  /\ event' = <<"serverError", message>>
  /\ turnTokens' = turnTokens
  /\ blob' = <<>>
  /\ UNCHANGED <<chunksRef, lifeVars>>
  /\ UNCHANGED <<now, mode, chatVars, wsVars, recVars, mediaVars,
                 volumeIntervalRef, runStart, quietStart, vadVars, cooldownUntilRef,
                 initTimer, encoding, audios>>

\* ws.onmessage, case "error".
ServerError(s, message) ==
  /\ Receiving(s)
  /\ error' = message
  /\ status' = "error"
  /\ sent' = <<>>
  /\ heard' = ""
  /\ event' = <<"serverError", message>>
  /\ turnTokens' = turnTokens
  /\ blob' = <<>>
  /\ UNCHANGED <<chunksRef, lifeVars>>
  /\ UNCHANGED <<now, mode, chatVars, wsVars, recVars, mediaVars,
                 volumeIntervalRef, runStart, quietStart, vadVars, cooldownUntilRef,
                 initTimer, encoding, audios>>

\* A handler that reports a message it cannot read as an error.
ServerOtherAsError(s, kind) ==
  /\ Receiving(s)
  /\ sent' = <<>>
  /\ heard' = ""
  /\ event' = <<"message", kind>>
  /\ turnTokens' = turnTokens
  /\ blob' = <<>>
  /\ UNCHANGED <<chunksRef, lifeVars>>
  /\ error' = IF kind \in {"pong", "config_ack"} THEN error
               ELSE "Unknown message"
  /\ status' = IF kind \in {"pong", "config_ack"} THEN status ELSE "error"
  /\ UNCHANGED <<now, mode, chatVars, wsVars, recVars,
                 mediaVars, volumeIntervalRef, runStart, quietStart, vadVars,
                 cooldownUntilRef, initTimer, encoding, audios>>

\* ws.onmessage with "pong" or "config_ack" (their case is empty), with a
\* type that no case of the switch names, or with text that JSON.parse
\* rejects (the catch logs it): nothing changes.
ServerOther(s, kind) ==
  /\ Receiving(s)
  /\ sent' = <<>>
  /\ heard' = ""
  /\ event' = <<"message", kind>>
  /\ turnTokens' = turnTokens
  /\ blob' = <<>>
  /\ UNCHANGED <<chunksRef, lifeVars>>
  /\ UNCHANGED <<now, status, mode, chatVars, wsVars, error, recVars,
                 mediaVars, volumeIntervalRef, runStart, quietStart, vadVars,
                 cooldownUntilRef, initTimer, encoding, audios>>

\* ws.onmessage with a Blob: the reply audio starts playing.
AudioBlob(s) ==
  /\ Receiving(s)
  /\ audios < MaxAudio
  /\ audios' = audios + 1
  /\ status' = "speaking"
  /\ sent' = <<>>
  /\ heard' = ""
  /\ event' = <<>>
  /\ turnTokens' = turnTokens
  /\ blob' = <<>>
  /\ UNCHANGED <<chunksRef, lifeVars>>
  /\ UNCHANGED <<now, mode, chatVars, wsVars, error, recVars,
                 mediaVars, volumeIntervalRef, runStart, quietStart, vadVars,
                 cooldownUntilRef, initTimer, encoding>>

\* audio.onended.
AudioEnded ==
  /\ audios > 0
  /\ audios' = audios - 1
  /\ cooldownUntilRef' = now + CooldownMs
  /\ status' = "idle"
  /\ sent' = <<>>
  /\ heard' = ""
  /\ event' = <<"ended">>
  /\ turnTokens' = turnTokens
  /\ blob' = <<>>
  /\ UNCHANGED <<chunksRef, lifeVars>>
  /\ UNCHANGED <<now, mode, chatVars, wsVars, error, recVars,
                 mediaVars, volumeIntervalRef, runStart, quietStart, vadVars, initTimer,
                 encoding>>

\* audio.onerror, or audio.play() rejecting: status idle, no cooldown.
AudioFailed ==
  /\ audios > 0
  /\ audios' = audios - 1
  /\ status' = "idle"
  /\ sent' = <<>>
  /\ heard' = ""
  /\ event' = <<>>
  /\ turnTokens' = turnTokens
  /\ blob' = <<>>
  /\ UNCHANGED <<chunksRef, lifeVars>>
  /\ UNCHANGED <<now, mode, chatVars, wsVars, error, recVars,
                 mediaVars, volumeIntervalRef, runStart, quietStart, vadVars,
                 cooldownUntilRef, initTimer, encoding>>

(***************************************************************************)
(* Text and log commands.                                                  *)
(***************************************************************************)
\* A sendText that leaves the log to the reply.
SendTextNoLog(text) ==
  /\ heard' = ""
  /\ event' = <<"sendText", text>>
  /\ turnTokens' = IF trim(text) = "" THEN turnTokens ELSE <<>>
  /\ blob' = <<>>
  /\ UNCHANGED <<chunksRef, lifeVars>>
  /\ IF trim(text) = ""
     THEN /\ sent' = <<>>
          /\ UNCHANGED <<status, chatHistory, currentResponseRef, error>>
     ELSE /\ UNCHANGED chatHistory
          /\ currentResponseRef' = <<>>
          /\ IF WsIsOpen
             THEN /\ sent' = <<Msg("text", text)>>
                  /\ status' = "processing"
                  /\ UNCHANGED error
             ELSE /\ sent' = <<>>
                  /\ error' = "Not connected to server"
                  /\ status' = "error"
  /\ UNCHANGED <<now, mode, conversationState, wsVars, recVars,
                 mediaVars, volumeIntervalRef, runStart, quietStart, vadVars,
                 cooldownUntilRef, initTimer, encoding, audios>>

\* A sendText that opens the conversation.
SendTextWakes(text) ==
  /\ heard' = ""
  /\ event' = <<"sendText", text>>
  /\ turnTokens' = IF trim(text) = "" THEN turnTokens ELSE <<>>
  /\ blob' = <<>>
  /\ UNCHANGED <<chunksRef, lifeVars>>
  /\ IF trim(text) = ""
     THEN /\ sent' = <<>>
          /\ UNCHANGED <<status, chatHistory, currentResponseRef, error>>
     ELSE /\ Len(chatHistory) < MaxChat
          /\ chatHistory' = Append(chatHistory, User(text))
          /\ currentResponseRef' = <<>>
          /\ IF WsIsOpen
             THEN /\ sent' = <<Msg("text", text)>>
                  /\ status' = "processing"
                  /\ UNCHANGED error
             ELSE /\ sent' = <<>>
                  /\ error' = "Not connected to server"
                  /\ status' = "error"
  /\ conversationState' = IF trim(text) = "" THEN conversationState
                        ELSE "active"
  /\ UNCHANGED <<now, mode, wsVars, recVars,
                 mediaVars, volumeIntervalRef, runStart, quietStart, vadVars,
                 cooldownUntilRef, initTimer, encoding, audios>>

\* sendText.
SendText(text) ==
  /\ heard' = ""
  /\ event' = <<"sendText", text>>
  /\ turnTokens' = IF trim(text) = "" THEN turnTokens ELSE <<>>
  /\ blob' = <<>>
  /\ UNCHANGED <<chunksRef, lifeVars>>
  /\ IF trim(text) = ""
     THEN /\ sent' = <<>>
          /\ UNCHANGED <<status, chatHistory, currentResponseRef, error>>
     ELSE /\ Len(chatHistory) < MaxChat
          /\ chatHistory' = Append(chatHistory, User(text))
          /\ currentResponseRef' = <<>>
          /\ IF WsIsOpen
             THEN /\ sent' = <<Msg("text", text)>>
                  /\ status' = "processing"
                  /\ UNCHANGED error
             ELSE /\ sent' = <<>>
                  /\ error' = "Not connected to server"
                  /\ status' = "error"
  /\ UNCHANGED <<now, mode, conversationState, wsVars, recVars,
                 mediaVars, volumeIntervalRef, runStart, quietStart, vadVars,
                 cooldownUntilRef, initTimer, encoding, audios>>

\* A clear that drops the oldest message only.
ClearOldest ==
  /\ error' = noError
  /\ chatHistory' = IF chatHistory = <<>> THEN <<>> ELSE Tail(chatHistory)
  /\ currentResponseRef' = <<>>
  /\ sent' = <<>>
  /\ heard' = ""
  /\ event' = <<"clear">>
  /\ turnTokens' = turnTokens
  /\ blob' = <<>>
  /\ UNCHANGED <<chunksRef, lifeVars>>
  /\ UNCHANGED <<now, status, mode, conversationState, wsVars,
                 recVars, mediaVars, volumeIntervalRef, runStart, quietStart, vadVars,
                 cooldownUntilRef, initTimer, encoding, audios>>

\* clear.
Clear ==
  /\ error' = noError
  /\ chatHistory' = <<>>
  /\ currentResponseRef' = <<>>
  /\ sent' = <<>>
  /\ heard' = ""
  /\ event' = <<"clear">>
  /\ turnTokens' = turnTokens
  /\ blob' = <<>>
  /\ UNCHANGED <<chunksRef, lifeVars>>
  /\ UNCHANGED <<now, status, mode, conversationState, wsVars,
                 recVars, mediaVars, volumeIntervalRef, runStart, quietStart, vadVars,
                 cooldownUntilRef, initTimer, encoding, audios>>

(***************************************************************************)
(* Teardown.                                                               *)
(***************************************************************************)
\* The component is unmounted: the cleanups of the three effects run.  The
\* connection effect closes the socket, the mount effect clears its timer,
\* and the cleanup effect stops the sampling timer, stops the recorder of
\* mediaRecorderRef when it records, stops the tracks of the stream of
\* streamRef and closes the socket.  A recorder whose stream has lost its
\* tracks is stopped by the browser.  No cleanup touches a getUserMedia
\* request or a blob encoding in flight, or the reply audio.
Unmount ==
  /\ mounted
  /\ mounted' = FALSE
  /\ initTimer' = FALSE
  /\ stopVolumeMonitoring
  /\ recorders' =
       [r \in DOMAIN recorders |->
          IF /\ recorders[r].state = "recording"
             /\ (r = mediaRecorderRef \/ recorders[r].stream = streamRef)
          THEN [recorders[r] EXCEPT !.state = "inactive", !.stopQueued = TRUE]
          ELSE recorders[r]]
  /\ stoppedStreams' = IF streamRef = null THEN stoppedStreams
                       ELSE stoppedStreams \cup {streamRef}
  /\ sockets' = IF wsRef # null /\ sockets[wsRef] \in {"connecting", "open"}
                THEN [sockets EXCEPT ![wsRef] = "closing"]
                ELSE sockets
  /\ sent' = <<>>
  /\ heard' = ""
  /\ event' = <<"unmount">>
  /\ turnTokens' = turnTokens
  /\ blob' = <<>>
  /\ UNCHANGED <<now, status, mode, chatVars, wsRef, isConnected, error,
                 mediaRecorderRef, isRecordingRef, mediaVars, vadVars,
                 cooldownUntilRef, encoding, audios, chunksRef>>

\* The commands of the hook; they can be invoked while the component is
\* mounted.
Commands ==
  \/ \E m \in {"hands-free", "push-to-talk"} : SetMode(m)
  \/ StartRecording
  \/ StopRecording
  \/ ToggleRecording
  \/ Reconnect
  \/ \E text \in TypedTexts : SendText(text)
  \/ Clear

(***************************************************************************)
(* The specification.                                                      *)
(***************************************************************************)
Next ==
  \/ \E level \in Levels : VolumeTick(level)
  \/ TimePasses
  \/ InitHandsFree
  \/ mounted /\ Commands
  \/ \E a \in Awaiters : MediaResolved(a)
  \/ \E a \in Awaiters : MediaRejected(a)
  \/ \E r \in 1..MaxRecorders : DataAvailable(r)
  \/ \E r \in 1..MaxRecorders : RecorderOnStop(r)
  \/ BlobEncoded
  \/ \E s \in 1..MaxSockets : WsOpen(s)
  \/ \E s \in 1..MaxSockets : WsClose(s)
  \/ \E s \in 1..MaxSockets : WsError(s)
  \/ \E s \in 1..MaxSockets, text \in Texts : Transcription(s, text)
  \/ \E s \in 1..MaxSockets, token \in Tokens : ResponseToken(s, token)
  \/ \E s \in 1..MaxSockets, full \in FullTexts, audio \in BOOLEAN :
       ResponseDone(s, full, audio)
  \/ \E s \in 1..MaxSockets, message \in ServerErrors : ServerError(s, message)
  \/ \E s \in 1..MaxSockets, kind \in OtherMessages : ServerOther(s, kind)
  \/ \E s \in 1..MaxSockets : AudioBlob(s)
  \/ AudioEnded
  \/ AudioFailed
  \/ Unmount

Spec == Init /\ [][Next]_vars

\* The detector, the recording commands, the mode switch and the device.
CaptureNext ==
  \/ \E level \in Levels : VolumeTick(level)
  \/ TimePasses
  \/ InitHandsFree
  \/ \E m \in {"hands-free", "push-to-talk"} : SetMode(m)
  \/ \E a \in Awaiters : MediaResolved(a)
  \/ \E a \in Awaiters : MediaRejected(a)
  \/ StartRecording
  \/ StopRecording
  \/ ToggleRecording
  \/ \E r \in 1..MaxRecorders : RecorderOnStop(r)

SpecCapture == Init /\ [][CaptureNext]_vars

\* The detector with a connection and reply audio, which move the status
\* through processing and speaking and open the cooldown window.
DetectorNext ==
  \/ \E level \in Levels : VolumeTick(level)
  \/ TimePasses
  \/ InitHandsFree
  \/ \E m \in {"hands-free", "push-to-talk"} : SetMode(m)
  \/ \E a \in Awaiters : MediaResolved(a)
  \/ StartRecording
  \/ ToggleRecording
  \/ \E r \in 1..MaxRecorders : RecorderOnStop(r)
  \/ BlobEncoded
  \/ \E s \in 1..MaxSockets : WsOpen(s)
  \/ \E s \in 1..MaxSockets : AudioBlob(s)
  \/ AudioEnded
  \/ AudioFailed

SpecDetector == Init /\ [][DetectorNext]_vars

\* The detector over the time a silence takes to stop a recording.  The
\* commands, the mode switch and the device answers come in the first
\* MaxTicks sampling periods; after that only the samples and the recorders'
\* stop events go on, up to MaxLongTicks periods.
LongTick(level) == Sample(level, MaxLongTicks, TRUE)
LongIdle == Idle(MaxLongTicks)
Setup == now < MaxTicks * TickMs

SilenceNext ==
  \/ \E level \in Levels : LongTick(level)
  \/ LongIdle
  \/ Setup /\ InitHandsFree
  \/ Setup /\ \E m \in {"hands-free", "push-to-talk"} : SetMode(m)
  \/ Setup /\ \E a \in Awaiters : MediaResolved(a)
  \/ Setup /\ StartRecording
  \/ Setup /\ StopRecording
  \/ \E r \in 1..MaxRecorders : RecorderOnStop(r)

SpecSilence == Init /\ [][SilenceNext]_vars

\* The detector in a quiet room with no recording command: every sample is
\* below the threshold.
QuietLevels == {level \in Levels : level < vadThreshold}

QuietNext ==
  \/ \E level \in QuietLevels : VolumeTick(level)
  \/ TimePasses
  \/ InitHandsFree
  \/ \E a \in Awaiters : MediaResolved(a)
  \/ \E a \in Awaiters : MediaRejected(a)
  \/ \E s \in 1..MaxSockets : WsOpen(s)
  \/ \E s \in 1..MaxSockets : WsClose(s)
  \/ \E s \in 1..MaxSockets : AudioBlob(s)
  \/ AudioEnded
  \/ AudioFailed
  \/ \E text \in TypedTexts : SendText(text)
  \/ \E s \in 1..MaxSockets, token \in Tokens : ResponseToken(s, token)

SpecQuiet == Init /\ [][QuietNext]_vars

\* Replies with audio while the detector samples: streamed and whole
\* replies, the reply audio and its playback.
PlaybackNext ==
  \/ \E level \in Levels : VolumeTick(level)
  \/ TimePasses
  \/ InitHandsFree
  \/ \E a \in Awaiters : MediaResolved(a)
  \/ \E s \in 1..MaxSockets : WsOpen(s)
  \/ \E s \in 1..MaxSockets, token \in Tokens : ResponseToken(s, token)
  \/ \E s \in 1..MaxSockets, full \in FullTexts, audio \in BOOLEAN :
       ResponseDone(s, full, audio)
  \/ \E s \in 1..MaxSockets : AudioBlob(s)
  \/ AudioEnded
  \/ AudioFailed

SpecPlayback == Init /\ [][PlaybackNext]_vars

\* The conversation gate on one connection: transcriptions, whole replies,
\* errors, typed queries and clear.
GateNext ==
  \/ \E s \in 1..MaxSockets : WsOpen(s)
  \/ \E s \in 1..MaxSockets : WsClose(s)
  \/ \E s \in 1..MaxSockets, text \in Texts : Transcription(s, text)
  \/ \E s \in 1..MaxSockets, full \in FullTexts, audio \in BOOLEAN :
       ResponseDone(s, full, audio)
  \/ \E s \in 1..MaxSockets, message \in ServerErrors : ServerError(s, message)
  \/ \E s \in 1..MaxSockets, kind \in OtherMessages : ServerOther(s, kind)
  \/ \E text \in TypedTexts : SendText(text)
  \/ Clear

SpecGate == Init /\ [][GateNext]_vars

\* The response assembler on one connection: typed queries, streamed and
\* whole replies, clear.
AssemblerNext ==
  \/ \E s \in 1..MaxSockets : WsOpen(s)
  \/ \E text \in TypedTexts : SendText(text)
  \/ \E s \in 1..MaxSockets, token \in Tokens : ResponseToken(s, token)
  \/ \E s \in 1..MaxSockets, full \in FullTexts, audio \in BOOLEAN :
       ResponseDone(s, full, audio)
  \/ Clear

SpecAssembler == Init /\ [][AssemblerNext]_vars

\* The life of the connection under a session: open, close, error and
\* reconnect, with transcriptions and streamed replies arriving.
ConnectionNext ==
  \/ \E s \in 1..MaxSockets : WsOpen(s)
  \/ \E s \in 1..MaxSockets : WsClose(s)
  \/ \E s \in 1..MaxSockets : WsError(s)
  \/ Reconnect
  \/ \E s \in 1..MaxSockets, text \in Texts : Transcription(s, text)
  \/ \E s \in 1..MaxSockets, token \in Tokens : ResponseToken(s, token)

SpecConnection == Init /\ [][ConnectionNext]_vars

\* The conversation gate with the response assembler: replies also arrive
\* token by token.
SessionNext ==
  \/ GateNext
  \/ \E s \in 1..MaxSockets, token \in Tokens : ResponseToken(s, token)
  \/ \E s \in 1..MaxSockets : WsError(s)

SpecSession == Init /\ [][SessionNext]_vars

\* The life of the component between two samples of the detector: the
\* hands-free activation, the commands, the device, the recorders' events,
\* the connection and the reply audio, and the unmount at any point.
LifecycleNext ==
  \/ InitHandsFree
  \/ mounted /\ \E m \in {"hands-free", "push-to-talk"} : SetMode(m)
  \/ mounted /\ StartRecording
  \/ mounted /\ StopRecording
  \/ \E a \in Awaiters : MediaResolved(a)
  \/ \E a \in Awaiters : MediaRejected(a)
  \/ \E r \in 1..MaxRecorders : RecorderOnStop(r)
  \/ BlobEncoded
  \/ \E s \in 1..MaxSockets : WsOpen(s)
  \/ \E s \in 1..MaxSockets : WsClose(s)
  \/ \E s \in 1..MaxSockets : AudioBlob(s)
  \/ AudioEnded
  \/ AudioFailed
  \/ Unmount

SpecLifecycle == Init /\ [][LifecycleNext]_vars

\* The detector in hands-free mode where the creation of a MediaRecorder can
\* fail, with typed queries on a connection that may not be open yet.
RetryTick(level) == Sample(level, MaxRetryTicks, TRUE)
RetryIdle == Idle(MaxRetryTicks)

RetryNext ==
  \/ \E level \in Levels : RetryTick(level)
  \/ \E level \in Levels : FailingTick(level)
  \/ RetryIdle
  \/ InitHandsFree
  \/ MediaResolved("init")
  \/ \E s \in 1..MaxSockets : WsOpen(s)
  \/ \E text \in TypedTexts : SendText(text)

SpecRetry == Init /\ [][RetryNext]_vars

\* Utterances in push-to-talk mode on a connection that opens, closes and
\* is replaced: recordings, their fragments, their encoding and sending,
\* and typed queries.  The user gives no start command while an earlier one
\* waits for the device, so one recorder gathers at a time.
UtteranceNext ==
  \/ SetMode("push-to-talk")
  \/ PendingStarts = 0 /\ StartRecording
  \/ StopRecording
  \/ MediaResolved("startUser")
  \/ \E r \in 1..MaxRecorders : DataAvailable(r)
  \/ \E r \in 1..MaxRecorders : RecorderOnStop(r)
  \/ BlobEncoded
  \/ \E s \in 1..MaxSockets : WsOpen(s)
  \/ \E s \in 1..MaxSockets : WsClose(s)
  \/ Reconnect
  \/ \E text \in TypedTexts : SendText(text)

SpecUtterance == Init /\ [][UtteranceNext]_vars

\* Everything that writes to the socket, on one connection: the handshake,
\* typed queries, transcriptions and push-to-talk utterances.
OutboundNext ==
  \/ \E s \in 1..MaxSockets : WsOpen(s)
  \/ \E s \in 1..MaxSockets : WsClose(s)
  \/ \E text \in TypedTexts : SendText(text)
  \/ \E s \in 1..MaxSockets, text \in Texts : Transcription(s, text)
  \/ SetMode("push-to-talk")
  \/ PendingStarts = 0 /\ StartRecording
  \/ StopRecording
  \/ MediaResolved("startUser")
  \/ \E r \in 1..MaxRecorders : RecorderOnStop(r)
  \/ BlobEncoded

SpecOutbound == Init /\ [][OutboundNext]_vars

\* Recordings and what ends them, in a quiet room: the user's commands and
\* mode switches, all given in the first sampling period, then the sampling
\* timer for longer than silenceDuration, the stop command and the
\* recorders' stop events.  Time advances, a queued stop event is
\* delivered, and the user who wants a recording to end gives the stop
\* command.
QuietLongTick == \E level \in QuietLevels : LongTick(level)
FirstPeriod == now = TickMs

StopsNext ==
  \/ QuietLongTick
  \/ LongIdle
  \/ FirstPeriod /\ \E m \in {"hands-free", "push-to-talk"} : SetMode(m)
  \/ FirstPeriod /\ \E a \in {"setMode", "startUser"} : MediaResolved(a)
  \/ FirstPeriod /\ PendingStarts = 0 /\ StartRecording
  \/ StopRecording
  \/ isRecordingRef /\ ToggleRecording
  \/ \E r \in 1..MaxRecorders : RecorderOnStop(r)

StopsFairness ==
  /\ WF_vars(QuietLongTick \/ LongIdle)
  /\ WF_vars(StopRecording)
  /\ WF_vars(isRecordingRef /\ ToggleRecording)
  /\ \A r \in 1..MaxRecorders : WF_vars(RecorderOnStop(r))

SpecStops == Init /\ [][StopsNext]_vars /\ StopsFairness

\* The recording commands in both modes, each leaving its name in the event
\* history, with the detector, the mode switch and the device.
StartCommand == StartRecordingAs(<<"startRecording">>)
StopCommand == StopRecordingAs(<<"stopRecording">>)
ToggleCommand == ToggleRecordingAs(<<"toggleRecording">>)

CommandsNext ==
  \/ StartCommand
  \/ StopCommand
  \/ ToggleCommand
  \/ \E level \in Levels : VolumeTick(level)
  \/ TimePasses
  \/ InitHandsFree
  \/ \E m \in {"hands-free", "push-to-talk"} : SetMode(m)
  \/ \E a \in Awaiters : MediaResolved(a)
  \/ \E r \in 1..MaxRecorders : RecorderOnStop(r)

SpecCommands == Init /\ [][CommandsNext]_vars

(***************************************************************************)
(* Properties.                                                             *)
(***************************************************************************)

\* A step in which the detector starts a recorder.
VadStarts ==
  /\ Len(recorders') = Len(recorders) + 1
  /\ recorders'[Len(recorders')].by = "startVad"

\* A step in which any recorder starts.
AnyStart == Len(recorders') = Len(recorders) + 1

\* A step that takes a sample above the threshold.
LoudTick == now' # now /\ runStart' # null

\* A step that takes a sample not above the threshold.
QuietTick == now' # now /\ volumeIntervalRef /\ runStart' = null

\* C1: at most one audio capture is active at any time, whatever the
\* interleaving of samples, start and toggle commands, mode switches and
\* device answers.
C1_SingleCapture == Cardinality(ActiveCaptures) <= 1

\* C2: when the detector starts a recording the mode is hands-free, no
\* recording is in progress, the time is not before cooldownUntil and the
\* status is neither processing nor speaking.
C2_VadStartEligible ==
  [][VadStarts =>
       /\ mode = "hands-free"
       /\ ~isRecordingRef
       /\ ActiveCaptures = {}
       /\ now' >= cooldownUntilRef
       /\ status \notin {"processing", "speaking"}]_vars

\* C3: a recording started by the detector ends an unbroken run of samples
\* above the threshold that spans at least speechMinDuration.
C3_SustainedRun ==
  [][VadStarts =>
       /\ runStart' # null
       /\ now' - runStart' >= speechMinDuration]_vars

\* C4 as stated: no recording starts, by the detector or by a command, at a
\* time before cooldownUntil.
C4_NoStartInCooldown == [][AnyStart => now' >= cooldownUntilRef]_vars

\* C4 as the code has it: no recording started by the detector starts at a
\* time before cooldownUntil.
C4_NoVadStartInCooldown == [][VadStarts => now' >= cooldownUntilRef]_vars

\* C4: in the cooldown window, idle and with the detector on, a run of
\* samples above the threshold has lasted longer than speechMinDuration and
\* no recording has started.
C4_Witness ==
  /\ vadEnabledRef /\ volumeIntervalRef
  /\ status = "idle"
  /\ cooldownUntilRef - CooldownMs < now /\ now < cooldownUntilRef
  /\ runStart # null /\ now - runStart > speechMinDuration
  /\ ~isRecordingRef /\ recorders = <<>>

\* C5: in hands-free mode, once the samples taken during a recording have
\* stayed below the threshold for longer than silenceDuration, no capture
\* is active any more.
C5_SilenceStops ==
  (mode = "hands-free" /\ quietStart # null
     /\ now - quietStart > silenceDuration)
  => ActiveCaptures = {}

\* C6: with the detector eligible and sampling every 50 ms, a sample not
\* above the threshold discards the pending speech start and starts
\* nothing, and a run of samples above the threshold that began with no
\* speech start pending and has lasted speechMinDuration starts a
\* recording at that sample.
C6_Boundary ==
  [][/\ (QuietTick /\ canListen(now'))
          => (speechStartRef' = null /\ ~AnyStart)
     /\ (LoudTick /\ canListen(now') /\ runStart # null
           /\ speechStartRef = runStart
           /\ now' - runStart >= speechMinDuration)
          => VadStarts]_vars

\* C7: in hands-free use with no recording command and every sample below
\* the threshold, no recording ever starts.
C7_QuietNeverStarts == recorders = <<>> /\ ~isRecordingRef /\ PendingStarts = 0

\* C7: the detector has sampled a quiet room up to the last period and
\* still listens.
C7_Witness ==
  /\ mode = "hands-free" /\ vadEnabledRef /\ volumeIntervalRef
  /\ status = "listening"
  /\ now = MaxTicks * TickMs
  /\ recorders = <<>>

\* A transcription step, as a condition on the step.
Heard(text) == heard' = text

\* The texts left after an occurrence of a wake phrase in a text, trimmed.
trailingTexts ==
  [text \in Texts |->
     {trim(slice(text, i + Len(WAKE_PHRASES[k]))) :
        <<k, i>> \in {<<k, i>> \in (1..Len(WAKE_PHRASES)) \X (0..Len(text)) :
                        /\ i + Len(WAKE_PHRASES[k]) <= Len(text)
                        /\ SubSeq(toLowerCase(text), i + 1,
                                  i + Len(WAKE_PHRASES[k])) = WAKE_PHRASES[k]}}]

TextSent == \E i \in 1..Len(sent') : sent'[i].type = "text"

\* C8: a text with an end phrase and a wake phrase ends the conversation,
\* in either state: the state is waiting afterwards, nothing is appended
\* to the chat log and no query is sent.
C8_EndWins ==
  [][\A text \in Texts :
       (Heard(text) /\ hasEndPhrase[text] /\ hasWakeWord[text])
         => /\ conversationState' = "waiting"
            /\ chatHistory' = chatHistory
            /\ ~TextSent]_vars

\* C8: a text with both phrases has been handled, the end signal sent.
C8_Witness ==
  /\ heard # "" /\ hasEndPhrase[heard] /\ hasWakeWord[heard]
  /\ conversationState = "waiting"
  /\ sent = <<Msg("end_conversation", "")>>

\* C9 as stated: while waiting, a text with no wake phrase sends no
\* message, appends nothing to the chat log and leaves the state waiting.
C9_NoMessage ==
  [][\A text \in Texts :
       (Heard(text) /\ conversationState = "waiting" /\ ~hasWakeWord[text])
         => /\ sent' = <<>>
            /\ chatHistory' = chatHistory
            /\ conversationState' = "waiting"]_vars

\* C9 as the code has it: while waiting, a text with no wake phrase sends
\* no query, appends nothing to the chat log and leaves the state waiting;
\* the one message it can cause is the end signal, for a text with an end
\* phrase.
C9_NoQuery ==
  [][\A text \in Texts :
       (Heard(text) /\ conversationState = "waiting" /\ ~hasWakeWord[text])
         => /\ sent' \in {<<>>, <<Msg("end_conversation", "")>>}
            /\ sent' # <<>> => hasEndPhrase[text]
            /\ chatHistory' = chatHistory
            /\ conversationState' = "waiting"]_vars

\* C9: a text with neither phrase has been ignored on an open connection.
C9_Witness ==
  /\ heard # "" /\ ~hasWakeWord[heard] /\ ~hasEndPhrase[heard]
  /\ WsIsOpen
  /\ conversationState = "waiting"
  /\ sent = <<>>
  /\ chatHistory = <<>>

\* C10: while waiting, a text with a wake phrase, no end phrase and more
\* than MinQueryLen characters after the wake phrase makes the state
\* active, appends one user message with the trailing text and sends one
\* text message with it.
C10_WakeWithQuery ==
  [][\A text \in Texts :
       (/\ Heard(text) /\ conversationState = "waiting"
        /\ hasWakeWord[text] /\ ~hasEndPhrase[text]
        /\ \A q \in trailingTexts[text] : Len(q) > MinQueryLen)
         => \E q \in trailingTexts[text] :
              /\ conversationState' = "active"
              /\ chatHistory' = Append(chatHistory, User(q))
              /\ sent' = <<Msg("text", q)>>]_vars

\* C10: the query after the wake phrase has been sent and logged.
C10_Witness ==
  /\ heard = "Hey ZED what is variance"
  /\ conversationState = "active"
  /\ chatHistory = <<User("what is variance")>>
  /\ sent = <<Msg("text", "what is variance")>>

\* A step that handles the given event.
Event(e) == event' = e

\* A step that handles a terminal response.
Terminal(full_text, kind) == Event(<<"response", full_text, kind>>)

\* A step that appends the message m at the end of the log.
Appends(m) == chatHistory' = Append(chatHistory, m)

LastMessage == chatHistory[Len(chatHistory)]

C12_EndPhrase ==
  [][\A text \in Texts :
       (Heard(text) /\ hasEndPhrase[text])
         => /\ conversationState' = "waiting"
            /\ status' = "idle"
            /\ sent' = IF WsIsOpen THEN <<Msg("end_conversation", "")>>
                       ELSE <<>>
            /\ chatHistory' = chatHistory]_vars

\* C12: an end phrase has closed a conversation that had logged a text.
C12_Witness ==
  /\ heard = "Thank you ZED"
  /\ conversationState = "waiting"
  /\ status = "idle"
  /\ sent = <<Msg("end_conversation", "")>>
  /\ chatHistory # <<>> /\ LastMessage = User("hello there")

\* C13: after clear the conversation state is waiting.
C13_ClearEndsConversation ==
  [][Event(<<"clear">>) => conversationState' = "waiting"]_vars

\* C14: a terminal response with no full_text promotes the tokens received
\* since the turn started, all of them, in arrival order.
C14_PromotedTokens ==
  [][\A kind \in {"audio", "text"} :
       (Terminal("", kind) /\ chatHistory' # chatHistory)
         => Appends(Assistant(Concat(turnTokens)))]_vars

\* The final text of a terminal response.
FinalText(full_text) ==
  IF full_text # "" THEN full_text ELSE Concat(currentResponseRef)

C16_SpeakingUntilPlayed ==
  /\ [][\A full_text \in FullTexts :
          Terminal(full_text, "audio") => status' = "speaking"]_vars
  /\ [](audios > 0 => status = "speaking")
  /\ [][Event(<<"ended">>)
          => (cooldownUntilRef' = now + CooldownMs /\ status' = "idle")]_vars
  /\ [][VadStarts => audios = 0]_vars

\* C17: a step that starts a turn leaves the accumulator empty, and no two
\* assistant messages follow each other in the log with no turn started
\* between them.
C17_OncePerTurn ==
  /\ [][(chatHistory' # chatHistory /\ chatHistory' # <<>>
           /\ chatHistory'[Len(chatHistory')].role = "user")
          => currentResponseRef' = <<>>]_vars
  /\ [](\A i \in 1..(Len(chatHistory) - 1) :
          ~(chatHistory[i].role = "assistant"
              /\ chatHistory[i + 1].role = "assistant"))

\* C18: the log changes only by one message appended at its end or by
\* being emptied.
C18_AppendOnly ==
  [][chatHistory' # chatHistory
       => \/ chatHistory' = <<>>
          \/ /\ Len(chatHistory') = Len(chatHistory) + 1
             /\ SubSeq(chatHistory', 1, Len(chatHistory)) = chatHistory]_vars

\* C18: an assistant message and then a user message have been appended.
C18_Witness ==
  /\ Len(chatHistory) = 2
  /\ chatHistory[1].role = "assistant"
  /\ chatHistory[2].role = "user"

\* C19: every dispatch (sendText on an open connection, the query after a
\* wake phrase, a text in an active conversation) appends its user message
\* in the same step, and an assistant message is appended only by a later
\* terminal response, at the end of the log.
C19_UserLoggedAtDispatch ==
  [][/\ \A text \in TypedTexts :
          (Event(<<"sendText", text>>) /\ sent' = <<Msg("text", text)>>)
            => Appends(User(text))
     /\ \A text \in Texts :
          (Heard(text) /\ sent' # <<>> /\ sent'[1].type = "text")
            => Appends(User(sent'[1].text))
     /\ \A text \in Texts :
          (Heard(text) /\ conversationState = "active" /\ ~hasEndPhrase[text])
            => Appends(User(text))
     /\ (chatHistory' # chatHistory /\ chatHistory' # <<>>
           /\ chatHistory'[Len(chatHistory')].role = "assistant")
          => \E full_text \in FullTexts, kind \in {"audio", "text"} :
               /\ Terminal(full_text, kind)
               /\ Appends(Assistant(FinalText(full_text)))]_vars

\* C19: the reply to a typed query has been logged after the query.
C19_Witness ==
  /\ chatHistory = <<User("what is variance"),
                     Assistant("Variance measures spread.")>>
  /\ event = <<"response", "Variance measures spread.", "text">>

\* C20: a close or error event of the connection makes connected false and
\* leaves the conversation state, the status, the mode, the log and the
\* partial response as they were.
C20_CloseKeepsSession ==
  [][(Event(<<"close">>) \/ Event(<<"error">>))
       => /\ isConnected' = FALSE
          /\ UNCHANGED <<conversationState, status, mode, chatHistory,
                         currentResponseRef>>]_vars

\* C20: the connection has closed in the middle of a streamed reply of an
\* active conversation.
C20_Witness ==
  /\ event = <<"close">>
  /\ ~isConnected
  /\ conversationState = "active"
  /\ status = "speaking"
  /\ chatHistory # <<>>
  /\ currentResponseRef # <<>>

\* A step of recorder.onstop: its first part, which builds the blob, or its
\* second part, which sends the encoded blob.
BuildsBlob == blob' # <<>>
SendsBlob == encoding' = encoding - 1

\* C21: when sendText is invoked with a text that is not blank, or a
\* recording is finalized (the blob is built, or the encoded blob is handed
\* to the socket), while the connection is not open, nothing is sent in
\* that step, the error becomes "Not connected to server" and the status
\* becomes error; and nothing is kept to be sent later: a step sends a
\* query or an utterance only on a connection that is open in that step.
C21_OfflineFailsFast ==
  [][/\ \A text \in TypedTexts :
          (Event(<<"sendText", text>>) /\ trim(text) # "" /\ ~WsIsOpen)
            => (sent' = <<>> /\ error' = "Not connected to server"
                  /\ status' = "error")
     /\ ((BuildsBlob \/ SendsBlob) /\ ~WsIsOpen)
            => (sent' = <<>> /\ error' = "Not connected to server"
                  /\ status' = "error")
     /\ (\E i \in 1..Len(sent') : sent'[i].type \in {"text", "audio"})
            => WsIsOpen]_vars

\* C22: an error message of the server makes the status error and the
\* error field the server's text, and leaves the conversation state and
\* the chat log as they were.
C22_RemoteError ==
  [][\A message \in ServerErrors :
       Event(<<"serverError", message>>)
         => /\ status' = "error"
            /\ error' = message
            /\ UNCHANGED <<conversationState, chatHistory>>]_vars

\* C22: the server has reported an error in an active conversation with a
\* logged query.
C22_Witness ==
  /\ event = <<"serverError", "Rate limit exceeded">>
  /\ status = "error"
  /\ error = "Rate limit exceeded"
  /\ conversationState = "active"
  /\ chatHistory # <<>>

\* C23: a message that JSON.parse rejects or whose type no case names
\* changes neither the status, the conversation state, the chat log, the
\* partial response nor the error field.
C23_MalformedDropped ==
  [][\A kind \in {"unknown", "unparseable"} :
       Event(<<"message", kind>>)
         => UNCHANGED <<status, conversationState, chatHistory,
                        currentResponseRef, error>>]_vars

\* C23: a message that is not JSON has arrived in an active conversation
\* that waits for its reply.
C23_Witness ==
  /\ event = <<"message", "unparseable">>
  /\ conversationState = "active"
  /\ status = "processing"
  /\ chatHistory # <<>>
  /\ error = noError

\* C24: when getUserMedia rejects during a hands-free activation, on mount
\* or in setMode, the status becomes error, the error message is set and
\* the detector stays disabled.
C24_DeviceFailure ==
  [][\A a \in {"init", "setMode"} :
       Event(<<"rejected", a>>)
         => /\ status' = "error"
            /\ error' # noError
            /\ ~vadEnabledRef']_vars

\* A recorder gathers audio from start() until the task that stop() queues,
\* the one that delivers its stop event.
Gathering(r) == Capturing(r) \/ recorders[r].stopQueued

C26_PushToTalkDetectorOff ==
  mode = "push-to-talk" => (~vadEnabledRef /\ ~volumeIntervalRef)

\* The streams whose tracks have not been stopped.
HeldStreams == (1..streams) \ stoppedStreams

\* C28: once the component is unmounted, no device stream is held, the
\* sampling timer is not running, no recorder records, the socket is
\* neither open nor connecting and no reply audio holds an object URL.
C28_TeardownReleases ==
  ~mounted
    => /\ HeldStreams = {}
       /\ ~volumeIntervalRef
       /\ ActiveCaptures = {}
       /\ wsRef = null \/ sockets[wsRef] \notin {"connecting", "open"}
       /\ audios = 0

\* C29: at most one device stream is acquired in a session.
C29_SingleStream == streams <= 1

\* The recordings started by the detector that are in progress.
VadCaptures == {r \in ActiveCaptures : recorders[r].by = "startVad"}

\* Recorder r has been asked to stop, and its stop event is still to come.
StopRequested(r) == ~Capturing(r) /\ recorders[r].stopQueued

\* Recorder r has stopped and its stop handler has run.
Finalized(r) == ~Capturing(r) /\ ~recorders[r].stopQueued

\* C27: setMode("push-to-talk") with a recording of the detector in
\* progress asks that recording to stop and clears the sampling timer in
\* the same step, and a recording whose stop handler has run is never
\* finalized again.
C27_SwitchStopsAtOnce ==
  [][/\ (SetMode("push-to-talk") /\ VadCaptures # {})
          => /\ \A r \in VadCaptures : StopRequested(r)'
             /\ ~volumeIntervalRef'
     /\ \A r \in 1..Len(recorders) : Finalized(r) => Finalized(r)']_vars

\* The fragments recorder r has delivered, in order.
Delivered(r) == [i \in 1..recorders[r].fragments |-> <<r, i>>]

\* C30: the blob built when a recorder stops holds exactly the fragments
\* that recorder delivered, in order, also when the recorder was started
\* while the utterance before it was being encoded; and once the blob is
\* sent, or found unsendable, the buffer is empty.
C30_UtteranceExact ==
  [][/\ BuildsBlob => blob'[2] = Delivered(blob'[1])
     /\ (SendsBlob \/ (BuildsBlob /\ ~WsIsOpen)) => chunksRef' = <<>>]_vars

\* A step in which the user gives a command.
TypedStep == \E text \in TypedTexts : Event(<<"sendText", text>>)

\* A step that sends a query or an utterance.
Dispatches == \E i \in 1..Len(sent') : sent'[i].type \in {"text", "audio"}

\* C31: while the status is error after a failed start of a recording or a
\* failed dispatch, no step other than a command of the user starts a
\* recording, tries to start one or sends a query or an utterance.
C31_NoAutomaticRetry ==
  [][(status = "error" /\ ~TypedStep)
       => (~AnyStart /\ ~Event(<<"startFailed">>) /\ ~Dispatches)]_vars

\* A step in which socket s opens.
Opens(s) == s \in 1..Len(sockets) /\ sockets[s] = "connecting" /\ sockets'[s] = "open"

\* C32: the step in which a connection opens sends one message, the
\* configuration with the configured sample rate; no other step sends a
\* configuration; and every other message is sent on a connection that was
\* open before the step, after its configuration.
C32_ConfigFirst ==
  [][/\ \A s \in 1..MaxSockets : Opens(s) => sent' = <<ConfigMsg>>
     /\ (\E i \in 1..Len(sent') : sent'[i].type = "config")
          => \E s \in 1..MaxSockets : Opens(s)
     /\ (\E i \in 1..Len(sent') : sent'[i].type # "config")
          => WsIsOpen /\ wsRef' = wsRef]_vars

\* C32: the connection made by reconnect has opened and its configuration
\* has been sent.
C32_Witness ==
  /\ wsRef = 2
  /\ sockets[wsRef] = "open"
  /\ sent = <<ConfigMsg>>
  /\ ConfigMsg.sampleRate = 16000

\* A socket that has been closed or is being closed.
Gone(state) == state \in {"closing", "closed"}

\* C33: a new connection is made by the reconnect command only, and a
\* connection that has closed or failed does not open again.
C33_NoAutomaticReconnect ==
  [][/\ Len(sockets') # Len(sockets) => Reconnect
     /\ \A s \in 1..Len(sockets) : Gone(sockets[s]) => Gone(sockets'[s])]_vars

\* C33: the connection has failed and closed, and no other has been made.
C33_Witness ==
  /\ event = <<"close">>
  /\ sockets = <<"closed">>
  /\ error = "Connection failed"
  /\ ~isConnected

\* C34: while waiting, a text with a wake phrase, no end phrase and at most
\* MinQueryLen characters after the wake phrase makes the state active and
\* the status idle, sends nothing and appends nothing to the log.
C34_WakeAlone ==
  [][\A text \in Texts :
       (/\ Heard(text) /\ conversationState = "waiting"
        /\ hasWakeWord[text] /\ ~hasEndPhrase[text]
        /\ \A q \in trailingTexts[text] : Len(q) <= MinQueryLen)
         => /\ conversationState' = "active"
            /\ status' = "idle"
            /\ sent' = <<>>
            /\ chatHistory' = chatHistory]_vars

\* C34: a wake phrase followed by two characters has opened the
\* conversation on an open connection and nothing was sent or logged.
C34_Witness ==
  /\ heard = "Hey Zed ok"
  /\ WsIsOpen
  /\ conversationState = "active"
  /\ status = "idle"
  /\ sent = <<>>
  /\ chatHistory = <<>>

\* The type of every message a step sends is among the given ones.
SendsOnly(types) == \A i \in 1..Len(sent') : sent'[i].type \in types

\* C35 as stated: every message sent is a config message, a text message
\* or a finalized utterance.
C35_ThreeKinds == [][SendsOnly({"config", "text", "audio"})]_vars

\* C35 as the code has it: every message sent is a config message, a text
\* message, a finalized utterance or the end signal, and the end signal is
\* sent only for a transcription with an end phrase.
C35_FourKinds ==
  [][/\ SendsOnly({"config", "text", "audio", "end_conversation"})
     /\ ~SendsOnly({"config", "text", "audio"})
          => /\ heard' # "" /\ hasEndPhrase[heard']
             /\ sent' = <<Msg("end_conversation", "")>>]_vars

\* C35: after an utterance was recorded and sent, a transcription with an
\* end phrase has made the client send the end signal.
C35_Witness ==
  /\ Len(recorders) > 0
  /\ encoding = 0
  /\ heard # "" /\ hasEndPhrase[heard]
  /\ sent = <<Msg("end_conversation", "")>>

\* C36: while the current connection is open and the connected flag is
\* set, the close event of another connection leaves the flag set.
C36_ConnectedFollowsCurrent ==
  [][(/\ Event(<<"close">>)
      /\ wsRef' # null /\ sockets'[wsRef'] = "open"
      /\ isConnected) => isConnected']_vars

\* C37: whenever a recorder is capturing audio the status is recording.
C37_CaptureMeansRecording == ActiveCaptures # {} => status = "recording"

CommandStep ==
  \/ Event(<<"startRecording">>)
  \/ Event(<<"stopRecording">>)
  \/ Event(<<"toggleRecording">>)

\* C39: in hands-free mode a recording command changes nothing: no
\* recorder starts or stops, no start is left waiting for the device, and
\* the status and every other field stay as they are.
C39_CommandsIgnored ==
  [][(mode = "hands-free" /\ CommandStep)
       => UNCHANGED <<now, status, mode, chatVars, wsVars, error, recVars,
                      mediaVars, volumeIntervalRef, vadVars, cooldownUntilRef,
                      initTimer, encoding, audios, chunksRef, lifeVars>>]_vars

\* C39: in hands-free mode a stop command was given during a recording of
\* the detector, and the recording goes on.
C39_Witness ==
  /\ mode = "hands-free"
  /\ event = <<"stopRecording">>
  /\ status = "recording"
  /\ VadCaptures # {}

\* C40: sendText with a text that is not blank appends the text as a user
\* message, sends it as a text message when the connection is open and
\* nothing otherwise, in either conversation state, and leaves the
\* conversation state as it is; with a blank text it sends nothing and
\* changes nothing.
C40_SendTextBypassesGate ==
  [][\A text \in TypedTexts :
       Event(<<"sendText", text>>)
         => /\ conversationState' = conversationState
            /\ IF trim(text) = ""
               THEN /\ sent' = <<>>
                    /\ UNCHANGED <<now, status, mode, chatVars, wsVars, error,
                                   recVars, mediaVars, volumeIntervalRef,
                                   vadVars, cooldownUntilRef, initTimer,
                                   encoding, audios, chunksRef, lifeVars>>
               ELSE /\ Appends(User(text))
                    /\ sent' = IF WsIsOpen THEN <<Msg("text", text)>>
                               ELSE <<>>]_vars

\* C40: a typed query has been sent and logged while the conversation was
\* waiting for the wake word, and it still is.
C40_Witness ==
  /\ event = <<"sendText", "what is variance">>
  /\ conversationState = "waiting"
  /\ sent = <<Msg("text", "what is variance")>>
  /\ chatHistory # <<>> /\ LastMessage = User("what is variance")

====
